---- MODULE Spec2Model ----
(***************************************************************************)
(* Model of pkg/stage/ipinfo.go: the IPInfo resolver.                      *)
(*   NewIPInfo / ensureDatabases / downloadFile : construction             *)
(*   GetIPInfo                                  : lookup under RLock       *)
(*   Close                                      : teardown under Lock      *)
(*   getLocalizedName                           : locale fallback          *)
(***************************************************************************)
EXTENDS Integers, Sequences, FiniteSets, TLC

\* ------------------------------------------------------------------ bounds
NumLookups == 2
NumClosers == 2
MaxRetries == 2

Lookups == 1..NumLookups
Closers == 1..NumClosers

\* ------------------------------------------------------------- file system
Files == {"city", "asn"}

\* What a database file on disk can hold: nothing at all (absent), the
\* zero-length file os.Create leaves, a truncated body, a complete body that
\* is no database, or a complete valid database.
Contents == {"absent", "empty", "partial", "bad", "good"}

DefaultDir == "~/.zscan/geoip"
DbDirs == {"", DefaultDir}

VARIABLES
    fs,          \* [Files -> Contents]: the two backing files in the directory
    dirExists,   \* the database directory exists
    cpc,         \* position of the constructing caller inside NewIPInfo
    dbDir,       \* NewIPInfo's dbDir parameter / local
    cfile,       \* the file ensureDatabases is provisioning
    body,        \* the response body downloadFile is about to copy
    i,           \* the IPInfo object: cityReader, asnReader, dbDir
    err,         \* the error the construction is failing with ("" for none)
    ret,         \* what NewIPInfo returned: "none" so far, "ok" for (i, nil), else (nil, err)
    trace,       \* the steps this construction has run, in order
    fs0,         \* fs as it was when this construction started
    nfail,       \* constructions that failed since the last one that succeeded
    prev,        \* how the previous construction ended: its error and its last step
    mu,          \* i.mu, the sync.RWMutex
    closeCalls,  \* Close() calls received by each handle of i
    lpc,         \* position of each lookup goroutine inside GetIPInfo
    lip,         \* its ip argument
    lcity,       \* its local `city`
    lret,        \* what its last GetIPInfo call returned
    touched,     \* the queries its current/last call has made, in order
    kpc,         \* position of each closing goroutine inside Close
    names,       \* getLocalizedName: the names argument
    lang,        \* getLocalizedName: the lang argument
    name         \* getLocalizedName: the returned string (NotCalled before)

ctorVars == <<fs, dirExists, cpc, dbDir, cfile, body, i, err, ret, trace, fs0, nfail, prev>>
lookupVars == <<lpc, lip, lcity, lret, touched>>
localeVars == <<names, lang, name>>
vars == <<fs, dirExists, cpc, dbDir, cfile, body, i, err, ret, trace, fs0, nfail, prev,
          mu, closeCalls, lpc, lip, lcity, lret, touched, kpc, names, lang, name>>

\* ------------------------------------------------------- getLocalizedName
Langs == {"en", "de", "fr"}
NameValues == {"", "Germany", "Deutschland"}
NotCalled == "<not called>"

\* A Go map[string]string: nil, or a finite map. Reading a nil map is legal.
NilMap == [isNil |-> TRUE, m |-> <<>>]
MakeMap(f) == [isNil |-> FALSE, m |-> f]
HasKey(nm, k) == ~nm.isNil /\ k \in DOMAIN nm.m

getLocalizedName_NoFallback(nm, l) ==
    IF nm.isNil THEN ""
    ELSE IF HasKey(nm, l) THEN nm.m[l]
    ELSE ""

getLocalizedName(nm, l) ==
    IF nm.isNil THEN ""
    ELSE IF HasKey(nm, l) THEN nm.m[l]
    ELSE IF HasKey(nm, "en") THEN nm.m["en"]
    ELSE ""

\* -------------------------------------------------------------- addresses
\* The address strings callers pass, and what net.ParseIP makes of each: the
\* address as a tuple of its groups, or NilIP when the string does not parse.
NilIP == <<>>

ParseTable ==
    [s \in {"192.0.2.1", "198.51.100.7", "203.0.113.9", "10.0.0.1", "2001:db8::1"} |->
        CASE s = "192.0.2.1"    -> <<192, 0, 2, 1>>
          [] s = "203.0.113.9"  -> <<203, 0, 113, 9>>
          [] s = "198.51.100.7" -> <<198, 51, 100, 7>>
          [] s = "10.0.0.1"     -> <<10, 0, 0, 1>>
          [] s = "2001:db8::1"  -> <<8193, 3512, 0, 0, 0, 0, 0, 1>>]

IpStrings == DOMAIN ParseTable \cup {"999.1.1.1", ""}

ParseIP(s) == IF s \in DOMAIN ParseTable THEN ParseTable[s] ELSE NilIP

\* ---------------------------------------------------- database fixtures
\* What a valid city database answers for an address: an error, or a
\* geoip2.City record. Latitude/longitude are in thousandths of a degree.
QueryErr == [err |-> TRUE]
QueryOk(r) == [err |-> FALSE, rec |-> r]

Sub(nm, code) == [Names |-> nm, IsoCode |-> code]

CityFixture(ip) ==
    CASE ip = <<192, 0, 2, 1>> ->
            QueryOk([ContinentNames |-> MakeMap([l \in {"en", "de"} |->
                                         IF l = "en" THEN "Europe" ELSE "Europa"]),
                     ContinentCode  |-> "EU",
                     CountryNames   |-> MakeMap([l \in {"en", "de"} |->
                                         IF l = "en" THEN "Germany" ELSE "Deutschland"]),
                     CountryIsoCode |-> "DE",
                     CityNames      |-> MakeMap([l \in {"de"} |-> "Muenchen"]),
                     TimeZone       |-> "Europe/Berlin",
                     PostalCode     |-> "80331",
                     Latitude       |-> 48137,
                     Longitude      |-> 11575,
                     AccuracyRadius |-> 20,
                     Subdivisions   |-> << Sub(MakeMap([l \in {"en"} |-> "Bavaria"]), "BY"),
                                           Sub(MakeMap([l \in {"en"} |-> "Upper Bavaria"]), "OB") >>])
      [] ip = <<198, 51, 100, 7>> ->
            QueryOk([ContinentNames |-> MakeMap([l \in {"en"} |-> "North America"]),
                     ContinentCode  |-> "NA",
                     CountryNames   |-> MakeMap([l \in {"en"} |-> "United States"]),
                     CountryIsoCode |-> "US",
                     CityNames      |-> MakeMap([l \in {"en"} |-> "Austin"]),
                     TimeZone       |-> "America/Chicago",
                     PostalCode     |-> "73301",
                     Latitude       |-> 30267,
                     Longitude      |-> 0 - 97743,
                     AccuracyRadius |-> 1000,
                     Subdivisions   |-> << Sub(MakeMap([l \in {"fr"} |-> "Texas"]), "TX") >>])
      [] ip = <<203, 0, 113, 9>> ->
            QueryOk([ContinentNames |-> MakeMap([l \in {"en"} |-> "North America"]),
                     ContinentCode  |-> "NA",
                     CountryNames   |-> MakeMap([l \in {"en"} |-> "Canada"]),
                     CountryIsoCode |-> "CA",
                     CityNames      |-> MakeMap([l \in {"en", "fr"} |->
                                         IF l = "en" THEN "Montreal" ELSE "Montreal (fr)"]),
                     TimeZone       |-> "America/Toronto",
                     PostalCode     |-> "H2Y",
                     Latitude       |-> 45508,
                     Longitude      |-> 0 - 73587,
                     AccuracyRadius |-> 50,
                     Subdivisions   |-> << Sub(MakeMap([l \in {"fr"} |-> "Quebec"]), "QC"),
                                           Sub(MakeMap([l \in {"en"} |-> "Montreal Region"]), "MR") >>])
      [] ip = <<8193, 3512, 0, 0, 0, 0, 0, 1>> ->
            QueryOk([ContinentNames |-> NilMap,
                     ContinentCode  |-> "",
                     CountryNames   |-> MakeMap([l \in {"en", "fr"} |->
                                         IF l = "en" THEN "Japan" ELSE "Japon"]),
                     CountryIsoCode |-> "JP",
                     CityNames      |-> NilMap,
                     TimeZone       |-> "Asia/Tokyo",
                     PostalCode     |-> "",
                     Latitude       |-> 35690,
                     Longitude      |-> 139690,
                     AccuracyRadius |-> 500,
                     Subdivisions   |-> << >>])
      [] OTHER -> QueryErr

\* What a valid ASN database answers for an address.
ASNFixture(ip) ==
    CASE ip = <<192, 0, 2, 1>> ->
            QueryOk([AutonomousSystemNumber       |-> 3320,
                     AutonomousSystemOrganization |-> "Deutsche Telekom AG"])
      [] ip = <<203, 0, 113, 9>> ->
            QueryOk([AutonomousSystemNumber       |-> 577,
                     AutonomousSystemOrganization |-> "Bell Canada"])
      [] ip = <<8193, 3512, 0, 0, 0, 0, 0, 1>> ->
            QueryOk([AutonomousSystemNumber       |-> 2497,
                     AutonomousSystemOrganization |-> "Internet Initiative Japan Inc."])
      [] OTHER -> QueryErr

\* A query on an open handle answers from the database. A handle that has
\* been closed is no longer valid: the query may fail or may still answer.
CityQuery(h, ip) ==
    IF h = "open" THEN {CityFixture(ip)} ELSE {QueryErr, CityFixture(ip)}

ASNQuery(h, ip) ==
    IF h = "open" THEN {ASNFixture(ip)} ELSE {QueryErr, ASNFixture(ip)}

\* -------------------------------------------------------------- IPDetails
ErrInvalidIP == "invalid IP address"
ErrCity == "failed to query city information"
ErrASN == "failed to query ASN information"

NoResult == [kind |-> "none"]
Failure(e) == [kind |-> "error", err |-> e]
Success(d) == [kind |-> "details", details |-> d]

Uint16(n) == n % 65536

\* The region taken from the last subdivision instead of the first.
RegionOf_Last(city) ==
    IF Len(city.Subdivisions) > 0
    THEN [Region     |-> getLocalizedName(city.Subdivisions[Len(city.Subdivisions)].Names, "en"),
          RegionCode |-> city.Subdivisions[Len(city.Subdivisions)].IsoCode]
    ELSE [Region |-> "", RegionCode |-> ""]

RegionOf(city) ==
    IF Len(city.Subdivisions) > 0
    THEN [Region     |-> getLocalizedName(city.Subdivisions[1].Names, "en"),
          RegionCode |-> city.Subdivisions[1].IsoCode]
    ELSE [Region |-> "", RegionCode |-> ""]

\* The IPDetails value GetIPInfo builds from the two query results. The
\* fields the code never assigns keep Go's zero values.
Details(city, asn) ==
    [Continent      |-> getLocalizedName(city.ContinentNames, "en"),
     ContinentCode  |-> city.ContinentCode,
     Country        |-> getLocalizedName(city.CountryNames, "en"),
     CountryCode    |-> city.CountryIsoCode,
     City           |-> getLocalizedName(city.CityNames, "en"),
     TimeZone       |-> city.TimeZone,
     PostalCode     |-> city.PostalCode,
     Latitude       |-> city.Latitude,
     Longitude      |-> city.Longitude,
     ASN            |-> asn.AutonomousSystemNumber,
     ASNOrg         |-> asn.AutonomousSystemOrganization,
     AccuracyRadius |-> Uint16(city.AccuracyRadius),
     Region         |-> RegionOf(city).Region,
     RegionCode     |-> RegionOf(city).RegionCode,
     ISP            |-> "",
     Domain         |-> "",
     NetworkType    |-> "",
     IsAnonymous    |-> FALSE,
     IsAnonymousVPN |-> FALSE,
     IsHosting      |-> FALSE,
     IsProxy        |-> FALSE,
     IsTorExitNode  |-> FALSE]

\* ------------------------------------------------------------ sync.RWMutex
\* i.mu: the number of goroutines holding the lock shared, whether a Close
\* owns the writer side (w), and whether that Close holds the lock exclusively
\* (writing). A Close that owns w and is not yet writing is waiting for the
\* shared holders to leave; new RLock calls wait behind it.
NewMutex == [readerCount |-> 0, w |-> FALSE, writing |-> FALSE]

CanRLock_Exclusive(m) == ~m.w /\ m.readerCount = 0

\* No shared acquisition waits behind a Close that is still waiting.
CanRLock_NoWriterPreference(m) == ~m.writing

CanRLock(m) == ~m.w
RLock(m) == [m EXCEPT !.readerCount = @ + 1]
RUnlock(m) == [m EXCEPT !.readerCount = @ - 1]

CanLockW(m) == ~m.w
LockW(m) == [m EXCEPT !.w = TRUE]
CanLock(m) == m.w /\ ~m.writing /\ m.readerCount = 0
Lock(m) == [m EXCEPT !.writing = TRUE]
Unlock(m) == [m EXCEPT !.w = FALSE, !.writing = FALSE]

\* ------------------------------------------------------------ construction
NilIPInfo == [cityReader |-> "nil", asnReader |-> "nil", dbDir |-> ""]
NoCity == [unset |-> TRUE]

NoPrev == [err |-> "", last |-> << >>]
Ended(e, steps) == [err |-> e, last |-> IF e = "" THEN << >> ELSE steps[Len(steps)]]

NoFiles == [f \in Files |-> "absent"]
Present0 == {f \in Files : fs0[f] # "absent"}

Step(op, f) == <<op, f>>
Did(op, f) == \E n \in 1..Len(trace) : trace[n] = Step(op, f)
Count(op, f) == Cardinality({n \in 1..Len(trace) : trace[n] = Step(op, f)})

\* A step of the construction fails with error e, or ensureDatabases ends
\* with nil: what is left is NewIPInfo's return.
Fail(e) == /\ err' = e
           /\ cpc' = "return"

\* NewIPInfo's return statements (lines 58, 64, 74, 77): (nil, err) on an
\* error, (i, nil) otherwise. Its locals end here.
NewIPInfoReturn ==
    /\ cpc = "return"
    /\ ret' = IF err # "" THEN err ELSE "ok"
    /\ nfail' = IF err # "" THEN nfail + 1 ELSE 0
    /\ prev' = Ended(err, trace)
    /\ cpc' = "done"
    /\ dbDir' = ""
    /\ cfile' = "city"
    /\ body' = "none"
    /\ err' = ""
    /\ trace' = << >>
    /\ fs0' = NoFiles
    /\ UNCHANGED <<fs, dirExists, i, mu, closeCalls,
                   lpc, lip, lcity, lret, touched, kpc, names, lang, name>>

\* NewIPInfo is called (line 54): the first construction, or a caller that
\* got an error reconstructing. A caller that got a resolver keeps it.
NewIPInfo(d) ==
    /\ cpc = "idle" \/ (cpc = "done" /\ ret # "ok")
    /\ nfail <= MaxRetries
    /\ nfail' = nfail
    /\ prev' = prev
    /\ dbDir' = d
    /\ cpc' = IF d = "" THEN "home" ELSE "mkdir"
    /\ ret' = "none"
    /\ i' = NilIPInfo
    /\ trace' = << >>
    /\ fs0' = fs
    /\ mu' = NewMutex
    /\ closeCalls' = [f \in Files |-> 0]
    /\ lip' = [t \in Lookups |-> ""]
    /\ lcity' = [t \in Lookups |-> NoCity]
    /\ lret' = [t \in Lookups |-> NoResult]
    /\ touched' = [t \in Lookups |-> << >>]
    /\ kpc' = [k \in Closers |-> "idle"]
    /\ UNCHANGED <<fs, dirExists, cfile, body, err, lpc, names, lang, name>>

\* Lines 55-61: the default directory under the user's home.
UserHomeDir ==
    /\ cpc = "home"
    /\ \E ok \in BOOLEAN :
        IF ok
        THEN /\ dbDir' = DefaultDir
             /\ cpc' = "mkdir"
             /\ err' = err
        ELSE /\ Fail("HomeDirError")
             /\ dbDir' = dbDir
    /\ trace' = Append(trace, Step("home", "dir"))
    /\ UNCHANGED <<fs, dirExists, cfile, body, i, ret, fs0, nfail, prev, mu, closeCalls,
                   lpc, lip, lcity, lret, touched, kpc, names, lang, name>>

\* Lines 63-70: os.MkdirAll, then the IPInfo value. MkdirAll succeeds on a
\* directory that exists; creating a missing one can fail.
MkdirAll ==
    /\ cpc = "mkdir"
    /\ \E ok \in (IF dirExists THEN {TRUE} ELSE BOOLEAN) :
        IF ok
        THEN /\ dirExists' = TRUE
             /\ i' = [NilIPInfo EXCEPT !.dbDir = dbDir]
             /\ cpc' = "stat"
             /\ cfile' = "city"
             /\ err' = err
        ELSE /\ Fail("MkdirError")
             /\ UNCHANGED <<dirExists, i, cfile>>
    /\ trace' = Append(trace, Step("mkdir", "dir"))
    /\ UNCHANGED <<fs, dbDir, body, ret, fs0, nfail, prev, mu, closeCalls,
                   lpc, lip, lcity, lret, touched, kpc, names, lang, name>>

\* After the city file is provisioned comes the ASN file (line 164), after
\* the ASN file the opens (line 170).
NextPc_OpenFirst(f) == "openCity"

NextPc(f) == IF f = "city" THEN "stat" ELSE "openCity"
NextFile(f) == "asn"

DownloadError(f) == IF f = "city" THEN "DownloadCityError" ELSE "DownloadASNError"

\* os.IsNotExist(err) of os.Stat on the file.
IsNotExist_Always(f) == TRUE

IsNotExist_CityPath(f) == fs["city"] = "absent"

IsNotExist(f) == fs[f] = "absent"

\* Lines 158 and 164: download the file only if os.Stat reports it missing.
Stat ==
    /\ cpc = "stat"
    /\ trace' = Append(trace, Step("stat", cfile))
    /\ IF IsNotExist(cfile)
       THEN /\ cpc' = "get"
            /\ cfile' = cfile
       ELSE /\ cpc' = NextPc(cfile)
            /\ cfile' = NextFile(cfile)
    /\ UNCHANGED <<fs, dirExists, dbDir, body, i, err, ret, fs0, nfail, prev, mu, closeCalls,
                   lpc, lip, lcity, lret, touched, kpc, names, lang, name>>

\* What http.Get and the status check can yield: a transport error, a
\* response whose status is not 200, or a 200 response carrying a body.
GetOutcomes == {"transport", "badstatus", "good", "bad"}

\* What the server answered, as the trace records it.
Response(o) == IF o \in {"good", "bad"} THEN "200" ELSE o

GetFails_TransportOnly(o) == o = "transport"

GetFails(o) == o \in {"transport", "badstatus"}

\* The files after http.Get and the status check: lines 187-195 touch none.
AfterGet_CreateFirst(f, o) == [fs EXCEPT ![f] = "empty"]

AfterGet(f, o) == fs

\* downloadFile lines 187-195: http.Get and the status check.
HttpGet ==
    /\ cpc = "get"
    /\ \E o \in GetOutcomes :
        /\ trace' = trace \o << Step("get", cfile), Step(Response(o), cfile) >>
        /\ fs' = AfterGet(cfile, o)
        /\ IF GetFails(o)
           THEN /\ Fail(DownloadError(cfile))
                /\ body' = body
           ELSE /\ body' = o
                /\ cpc' = "create"
                /\ err' = err
    /\ UNCHANGED <<dirExists, dbDir, cfile, i, ret, fs0, nfail, prev, mu, closeCalls,
                   lpc, lip, lcity, lret, touched, kpc, names, lang, name>>

\* downloadFile lines 197-200: os.Create makes (or truncates) the file.
Create ==
    /\ cpc = "create"
    /\ \E ok \in BOOLEAN :
        IF ok
        THEN /\ fs' = [fs EXCEPT ![cfile] = "empty"]
             /\ trace' = Append(trace, Step("create", cfile))
             /\ cpc' = "copy"
             /\ err' = err
        ELSE /\ Fail(DownloadError(cfile))
             /\ trace' = Append(trace, Step("createfail", cfile))
             /\ fs' = fs
    /\ UNCHANGED <<dirExists, dbDir, cfile, body, i, ret, fs0, nfail, prev, mu, closeCalls,
                   lpc, lip, lcity, lret, touched, kpc, names, lang, name>>

\* The file after io.Copy wrote c into it (c = body: the whole body). Line
\* 204 returns the error of a failed copy and leaves the file as it is.
AfterCopy_RemoveOnError(f, c) == [fs EXCEPT ![f] = IF c = body THEN c ELSE "absent"]

AfterCopy(f, c) == [fs EXCEPT ![f] = c]

\* downloadFile lines 203-204: io.Copy streams the body into the file; a copy
\* that fails leaves what was written so far.
Copy ==
    /\ cpc = "copy"
    /\ trace' = Append(trace, Step("copy", cfile))
    /\ \E c \in {body, "empty", "partial"} :
        /\ fs' = AfterCopy(cfile, c)
        /\ IF c = body
           THEN /\ cpc' = NextPc(cfile)
                /\ cfile' = NextFile(cfile)
                /\ err' = err
           ELSE /\ Fail(DownloadError(cfile))
                /\ cfile' = cfile
    /\ body' = "none"
    /\ UNCHANGED <<dirExists, dbDir, i, ret, fs0, nfail, prev, mu, closeCalls,
                   lpc, lip, lcity, lret, touched, kpc, names, lang, name>>

\* The process stops while io.Copy (line 203) is streaming the body: the
\* file keeps what was written so far, everything in memory is gone, and the
\* program starts again from the beginning.
Crash ==
    /\ cpc = "copy"
    /\ \E c \in {"empty", "partial"} : fs' = [fs EXCEPT ![cfile] = c]
    /\ cpc' = "idle"
    /\ dbDir' = ""
    /\ cfile' = "city"
    /\ body' = "none"
    /\ i' = NilIPInfo
    /\ err' = ""
    /\ ret' = "none"
    /\ trace' = << >>
    /\ fs0' = NoFiles
    /\ nfail' = nfail + 1
    /\ prev' = Ended("crash", Append(trace, Step("copy", cfile)))
    /\ UNCHANGED <<dirExists, mu, closeCalls,
                   lpc, lip, lcity, lret, touched, kpc, names, lang, name>>

\* geoip2.Open succeeds only on a complete valid database, and can fail even
\* then (no memory, no descriptors).
OpenOutcomes(f) == IF fs[f] = "good" THEN BOOLEAN ELSE {FALSE}

\* What the error returns of lines 174 and 180 do to the files: nothing.
OnOpenError_Remove(f) == [fs EXCEPT ![f] = "absent"]

OnOpenError(f) == fs

\* Lines 172-175.
OpenCity ==
    /\ cpc = "openCity"
    /\ trace' = Append(trace, Step("open", "city"))
    /\ \E ok \in OpenOutcomes("city") :
        IF ok
        THEN /\ i' = [i EXCEPT !.cityReader = "open"]
             /\ cpc' = "openASN"
             /\ err' = err
             /\ fs' = fs
        ELSE /\ i' = [i EXCEPT !.cityReader = "nil"]
             /\ Fail("OpenCityError")
             /\ fs' = OnOpenError("city")
    /\ UNCHANGED <<dirExists, dbDir, cfile, body, ret, fs0, nfail, prev, mu, closeCalls,
                   lpc, lip, lcity, lret, touched, kpc, names, lang, name>>

\* Reader.Close on a handle.
CloseHandle(h) == "closed"

\* Lines 178-181: the ASN open failed.
OpenASNFailed_Leak ==
    /\ i' = [i EXCEPT !.asnReader = "nil"]
    /\ closeCalls' = closeCalls
    /\ Fail("OpenASNError")

OpenASNFailed ==
    /\ i' = [i EXCEPT !.asnReader = "nil", !.cityReader = CloseHandle(@)]
    /\ closeCalls' = [closeCalls EXCEPT !["city"] = @ + 1]
    /\ Fail("OpenASNError")

\* Lines 177-183.
OpenASN ==
    /\ cpc = "openASN"
    /\ trace' = Append(trace, Step("open", "asn"))
    /\ \E ok \in OpenOutcomes("asn") :
        IF ok
        THEN /\ i' = [i EXCEPT !.asnReader = "open"]
             /\ closeCalls' = closeCalls
             /\ Fail("")
             /\ fs' = fs
        ELSE /\ OpenASNFailed
             /\ fs' = OnOpenError("asn")
    /\ UNCHANGED <<dirExists, dbDir, cfile, body, ret, fs0, nfail, prev, mu,
                   lpc, lip, lcity, lret, touched, kpc, names, lang, name>>

\* ---------------------------------------------------------------- GetIPInfo
\* A goroutine can call a method of the resolver once NewIPInfo returned it.
HaveResolver == cpc = "done" /\ ret = "ok"

\* GetIPInfo(ip) is called and gets past i.mu.RLock() (lines 80-81). A call
\* that RLock keeps waiting has done nothing yet: it is this step, later.
GetIPInfo(t, ip) ==
    /\ HaveResolver
    /\ lpc[t] = "idle"
    /\ CanRLock(mu)
    /\ mu' = RLock(mu)
    /\ lpc' = [lpc EXCEPT ![t] = "parse"]
    /\ lip' = [lip EXCEPT ![t] = ip]
    /\ lcity' = [lcity EXCEPT ![t] = NoCity]
    /\ lret' = [lret EXCEPT ![t] = NoResult]
    /\ touched' = [touched EXCEPT ![t] = << >>]
    /\ UNCHANGED <<ctorVars, closeCalls, kpc, localeVars>>

\* The deferred i.mu.RUnlock() of line 82, run by every return of GetIPInfo.
Deferred_NotOnError(m, r) == IF r.kind = "error" THEN m ELSE RUnlock(m)

Deferred(m, r) == RUnlock(m)

\* A return statement of GetIPInfo.
Return(t, r) ==
    /\ lret' = [lret EXCEPT ![t] = r]
    /\ lpc' = [lpc EXCEPT ![t] = "idle"]
    /\ mu' = Deferred(mu, r)

\* Line 85: parsedIP == nil.
IsNil_Never(parsedIP) == FALSE

IsNil(parsedIP) == parsedIP = NilIP

\* Lines 84-87: net.ParseIP and the nil check.
GetIPInfoParse(t) ==
    /\ lpc[t] = "parse"
    /\ IF IsNil(ParseIP(lip[t]))
       THEN Return(t, Failure(ErrInvalidIP))
       ELSE /\ lpc' = [lpc EXCEPT ![t] = "city"]
            /\ UNCHANGED <<lret, mu>>
    /\ UNCHANGED <<ctorVars, closeCalls, lip, lcity, touched, kpc, localeVars>>

\* One query as touched records it: the handle, the state the handle was in,
\* and whether the query answered.
Query(handle, h, q) == <<handle, h, ~q.err>>

\* Where the goroutine keeps the city result between the two queries: its
\* local variable `city` (line 89).
StoreCity_Shared(t, rec) == [u \in Lookups |-> rec]

StoreCity(t, rec) == [lcity EXCEPT ![t] = rec]

\* The geoip2.City value a failed query hands back: Go's zero value.
ZeroCity ==
    [ContinentNames |-> NilMap, ContinentCode |-> "", CountryNames |-> NilMap,
     CountryIsoCode |-> "", CityNames |-> NilMap, TimeZone |-> "", PostalCode |-> "",
     Latitude |-> 0, Longitude |-> 0, AccuracyRadius |-> 0, Subdivisions |-> << >>]

\* Lines 90-92: the city query failed.
OnCityError_Continue(t) ==
    /\ lcity' = StoreCity(t, ZeroCity)
    /\ lpc' = [lpc EXCEPT ![t] = "asn"]
    /\ UNCHANGED <<lret, mu>>

OnCityError(t) ==
    /\ Return(t, Failure(ErrCity))
    /\ lcity' = lcity

\* Lines 89-92: the query on the city handle.
GetIPInfoCity(t) ==
    /\ lpc[t] = "city"
    /\ \E q \in CityQuery(i.cityReader, ParseIP(lip[t])) :
        /\ touched' = [touched EXCEPT ![t] = Append(@, Query("city", i.cityReader, q))]
        /\ IF q.err
           THEN OnCityError(t)
           ELSE /\ lcity' = StoreCity(t, q.rec)
                /\ lpc' = [lpc EXCEPT ![t] = "asn"]
                /\ UNCHANGED <<lret, mu>>
    /\ UNCHANGED <<ctorVars, closeCalls, lip, kpc, localeVars>>

\* Lines 94-123: the query on the ASN handle, and the IPDetails built from
\* both results.
GetIPInfoASN(t) ==
    /\ lpc[t] = "asn"
    /\ \E q \in ASNQuery(i.asnReader, ParseIP(lip[t])) :
        /\ touched' = [touched EXCEPT ![t] = Append(@, Query("asn", i.asnReader, q))]
        /\ IF q.err
           THEN Return(t, Failure(ErrASN))
           ELSE Return(t, Success(Details(lcity[t], q.rec)))
    /\ UNCHANGED <<ctorVars, closeCalls, lip, lcity, kpc, localeVars>>

\* -------------------------------------------------------------------- Close
\* Close() is called and i.mu.Lock() (lines 126-127) makes it the one
\* pending writer. A call that waits behind another Close is this step, later.
Close(k) ==
    /\ HaveResolver
    /\ kpc[k] = "idle"
    /\ CanLockW(mu)
    /\ mu' = LockW(mu)
    /\ kpc' = [kpc EXCEPT ![k] = "pending"]
    /\ UNCHANGED <<ctorVars, closeCalls, lookupVars, localeVars>>

\* When the pending Close may take the lock exclusively.
CanLockNow_IgnoreReaders(m) == m.w /\ ~m.writing

CanLockNow(m) == CanLock(m)

\* Line 127, i.mu.Lock() returns: the shared holders have left.
CloseLock(k) ==
    /\ kpc[k] = "pending"
    /\ CanLockNow(mu)
    /\ mu' = Lock(mu)
    /\ kpc' = [kpc EXCEPT ![k] = "closeCity"]
    /\ UNCHANGED <<ctorVars, closeCalls, lookupVars, localeVars>>

\* Lines 130 and 133: the only test Close makes of a handle field.
ShouldClose_IfOpen(h) == h = "open"

ShouldClose(h) == h # "nil"

\* Lines 130-132.
CloseCity(k) ==
    /\ kpc[k] = "closeCity"
    /\ IF ShouldClose(i.cityReader)
       THEN /\ i' = [i EXCEPT !.cityReader = CloseHandle(@)]
            /\ closeCalls' = [closeCalls EXCEPT !["city"] = @ + 1]
       ELSE UNCHANGED <<i, closeCalls>>
    /\ kpc' = [kpc EXCEPT ![k] = "closeASN"]
    /\ UNCHANGED <<fs, dirExists, cpc, dbDir, cfile, body, err, ret, trace, fs0, nfail, prev,
                   mu, lookupVars, localeVars>>

\* Lines 133-136: the ASN handle, then the deferred i.mu.Unlock() of line 128.
CloseASN(k) ==
    /\ kpc[k] = "closeASN"
    /\ IF ShouldClose(i.asnReader)
       THEN /\ i' = [i EXCEPT !.asnReader = CloseHandle(@)]
            /\ closeCalls' = [closeCalls EXCEPT !["asn"] = @ + 1]
       ELSE UNCHANGED <<i, closeCalls>>
    /\ mu' = Unlock(mu)
    /\ kpc' = [kpc EXCEPT ![k] = "done"]
    /\ UNCHANGED <<fs, dirExists, cpc, dbDir, cfile, body, err, ret, trace, fs0, nfail, prev,
                   lookupVars, localeVars>>

\* ------------------------------------------------------------ specification
\* The directory may hold either file in any condition when the program
\* starts; a directory that holds a file exists.
InitResolver ==
    /\ fs \in [Files -> Contents]
    /\ dirExists \in {d \in BOOLEAN : (\E f \in Files : fs[f] # "absent") => d}
    /\ cpc = "idle"
    /\ dbDir = ""
    /\ cfile = "city"
    /\ body = "none"
    /\ i = NilIPInfo
    /\ err = ""
    /\ ret = "none"
    /\ trace = << >>
    /\ fs0 = NoFiles
    /\ nfail = 0
    /\ prev = NoPrev
    /\ mu = NewMutex
    /\ closeCalls = [f \in Files |-> 0]
    /\ lpc = [t \in Lookups |-> "idle"]
    /\ lip = [t \in Lookups |-> ""]
    /\ lcity = [t \in Lookups |-> NoCity]
    /\ lret = [t \in Lookups |-> NoResult]
    /\ touched = [t \in Lookups |-> << >>]
    /\ kpc = [k \in Closers |-> "idle"]

Init ==
    /\ InitResolver
    /\ names = NilMap
    /\ lang = "en"
    /\ name = NotCalled

Construct ==
    \/ \E d \in DbDirs : NewIPInfo(d)
    \/ UserHomeDir
    \/ MkdirAll
    \/ Stat
    \/ HttpGet
    \/ Create
    \/ Copy
    \/ Crash
    \/ OpenCity
    \/ OpenASN
    \/ NewIPInfoReturn

Lookup(t) ==
    \/ \E ip \in IpStrings : GetIPInfo(t, ip)
    \/ GetIPInfoParse(t)
    \/ GetIPInfoCity(t)
    \/ GetIPInfoASN(t)

Closing(k) ==
    \/ Close(k)
    \/ CloseLock(k)
    \/ CloseCity(k)
    \/ CloseASN(k)

Next ==
    \/ Construct
    \/ \E t \in Lookups : Lookup(t)
    \/ \E k \in Closers : Closing(k)

Spec == Init /\ [][Next]_vars

\* The scheduler runs every goroutine that can take a step: a GetIPInfo past
\* RLock runs to its return, and a Close runs whenever Lock lets it.
Running(t) == GetIPInfoParse(t) \/ GetIPInfoCity(t) \/ GetIPInfoASN(t)
Proceeding(k) == CloseLock(k) \/ CloseCity(k) \/ CloseASN(k)

FairSpec ==
    /\ Spec
    /\ \A t \in Lookups : WF_vars(Running(t))
    /\ \A k \in Closers : WF_vars(Proceeding(k))

\* ------------------------------------------- getLocalizedName on its own
\* Every name map over Langs with values in NameValues, and the nil map.
NameMaps ==
    {NilMap} \cup {MakeMap(f) : f \in UNION {[D -> NameValues] : D \in SUBSET Langs}}

resolverVars == <<ctorVars, mu, closeCalls, lookupVars, kpc>>

InitLocale ==
    /\ InitResolver
    /\ fs = NoFiles
    /\ dirExists = FALSE
    /\ names \in NameMaps
    /\ lang \in Langs
    /\ name = NotCalled

\* One call getLocalizedName(names, lang) (lines 138-150).
Resolve ==
    /\ name = NotCalled
    /\ name' = getLocalizedName(names, lang)
    /\ UNCHANGED <<resolverVars, names, lang>>

NextLocale == Resolve

SpecLocale == InitLocale /\ [][NextLocale]_vars

\* ================================================================== claims
InCall(t) == lpc[t] # "idle"
IsClosing(k) == kpc[k] \in {"closeCity", "closeASN"}
WriterPresent == \E k \in Closers : kpc[k] \in {"pending", "closeCity", "closeASN"}
Returned(t) == lpc[t] = "idle" /\ lret[t] # NoResult
BothOpen == i.cityReader = "open" /\ i.asnReader = "open"
NeitherOpen == i.cityReader # "open" /\ i.asnReader # "open"

\* C1: while a Close holds the lock and is closing the handles, no GetIPInfo
\* call is between RLock and RUnlock (so every lookup that was in flight has
\* released the shared lock before the closing starts), and no other Close is
\* closing at the same time.
C1_CloseExcludesLookups ==
    \A k \in Closers :
        IsClosing(k) =>
            /\ \A t \in Lookups : ~InCall(t)
            /\ mu.readerCount = 0
            /\ \A k2 \in Closers \ {k} : ~IsClosing(k2)

\* A Close is between its two handle closes after a lookup has returned a
\* record and while the other Close waits to start.
C1_Witness ==
    /\ kpc[1] = "closeASN"
    /\ kpc[2] = "idle"
    /\ i.cityReader = "closed"
    /\ \E t \in Lookups : lret[t].kind = "details"

\* C2: at the end of every construction attempt both handles are open or
\* neither is: ensureDatabases ends with nil exactly when both are open, ends
\* with an error only with no handle open (the city handle is closed when the
\* ASN open fails), and NewIPInfo hands back a resolver only in the first case.
C2_AllOrNothing ==
    /\ cpc = "return" => IF err = "" THEN BothOpen ELSE NeitherOpen
    /\ cpc = "done" =>
         IF ret = "ok"
         THEN i.cityReader # "nil" /\ i.asnReader # "nil"
         ELSE NeitherOpen
    /\ err = "OpenASNError" => i.cityReader = "closed" /\ closeCalls["city"] = 1

\* The ASN open has failed after the city handle was opened.
C2_Witness ==
    /\ cpc = "return"
    /\ err = "OpenASNError"
    /\ i.cityReader = "closed"
    /\ trace[Len(trace) - 1] = Step("open", "city")

\* C3: a GetIPInfo call whose address does not parse returns the
\* invalid-address error and queries neither handle, whatever the state of
\* the handles.
C3_InvalidAddress ==
    \A t \in Lookups :
        ParseIP(lip[t]) = NilIP =>
            /\ lpc[t] \in {"idle", "parse"}
            /\ touched[t] = << >>
            /\ Returned(t) => lret[t] = Failure(ErrInvalidIP)

\* Invalid addresses were refused on an open resolver and on a closed one.
C3_Witness ==
    /\ Returned(1) /\ lip[1] = "999.1.1.1"
    /\ Returned(2) /\ lip[2] = ""
    /\ i.cityReader = "closed" /\ i.asnReader = "closed"

\* C4: a construction issues no fetch for a file that was present when it
\* started; with both files present it fetches nothing and creates nothing.
C4_NoFetchWhenPresent ==
    /\ \A f \in Present0 : ~Did("get", f) /\ ~Did("create", f)
    /\ Present0 = Files =>
         \A n \in 1..Len(trace) : trace[n][1] \notin {"get", "create", "copy"}

\* A retry after a failed construction has passed both file checks with
\* both files present.
C4_Witness ==
    /\ nfail >= 1
    /\ cpc = "openCity"
    /\ Present0 = Files
    /\ Did("stat", "city") /\ Did("stat", "asn")

\* C5: when exactly one file is missing as ensureDatabases starts, the
\* construction fetches that file, once, and neither fetches nor writes the
\* file that was present, whose content stays as it was.
C5_FetchOnlyMissing ==
    \A m \in Files : \A p \in Files \ {m} :
        (Present0 = {p} /\ cpc \in {"openCity", "openASN", "return"} /\ Did("stat", "city")) =>
            /\ Count("get", m) = 1
            /\ ~Did("get", p) /\ ~Did("create", p) /\ ~Did("copy", p)
            /\ fs[p] = fs0[p]

\* Only the ASN file was missing, and it has been fetched and written.
C5_Witness ==
    /\ Present0 = {"city"}
    /\ cpc = "openCity"
    /\ Did("copy", "asn")
    /\ fs["asn"] = "good"

\* C6: when a fetch fails (transport error or a status other than 200) the
\* construction fails with that file's download error, and no handle has
\* been opened then or is opened afterwards.
C6_FailedFetch ==
    /\ \A f \in Files :
         (Did("transport", f) \/ Did("badstatus", f)) =>
            /\ cpc = "return"
            /\ err = DownloadError(f)
            /\ i.cityReader = "nil" /\ i.asnReader = "nil"
            /\ ~Did("open", "city") /\ ~Did("open", "asn")
    /\ (cpc = "done" /\ ret \in {DownloadError(f) : f \in Files}) =>
            i.cityReader = "nil" /\ i.asnReader = "nil"

\* The ASN fetch was answered with a non-200 status after the city file was
\* downloaded.
C6_Witness ==
    /\ Did("badstatus", "asn")
    /\ Did("copy", "city")
    /\ err = "DownloadASNError"

\* What GetIPInfo(ip) returns when it runs alone on an open resolver.
GetIPInfoAlone(ip) ==
    LET p == ParseIP(ip) IN
    IF p = NilIP THEN Failure(ErrInvalidIP)
    ELSE IF CityFixture(p).err THEN Failure(ErrCity)
    ELSE IF ASNFixture(p).err THEN Failure(ErrASN)
    ELSE Success(Details(CityFixture(p).rec, ASNFixture(p).rec))

\* C7: no step of a lookup changes the resolver (handles, directory path),
\* and on an open resolver every GetIPInfo call, however interleaved with
\* other calls, returns what the call returns when run alone; so equal
\* addresses give equal records.
C7_LookupsIndependent ==
    /\ [](\A t \in Lookups :
            (Returned(t) /\ BothOpen) => lret[t] = GetIPInfoAlone(lip[t]))
    /\ [][(\E t \in Lookups : lpc'[t] # lpc[t]) => i' = i]_vars

\* One call has returned a record while another call, for another address
\* that the city database also knows, is between its two queries.
C7_Witness ==
    /\ BothOpen
    /\ lret[1].kind = "details" /\ lpc[1] = "idle"
    /\ lpc[2] = "asn" /\ lip[2] # lip[1] /\ lip[2] = "2001:db8::1"

\* C8: a GetIPInfo call is kept waiting at RLock only while a Close owns or
\* awaits the exclusive lock: with no such Close, a call can enter whatever
\* the number of calls already holding the shared lock.
C8_LookupsShare ==
    \A t \in Lookups :
        (HaveResolver /\ lpc[t] = "idle" /\ ~WriterPresent) =>
            \A ip \in IpStrings : ENABLED GetIPInfo(t, ip)

\* Two calls hold the shared lock at the same time.
C8_Witness ==
    /\ mu.readerCount >= 2
    /\ Cardinality({t \in Lookups : InCall(t)}) >= 2
    /\ ~WriterPresent

\* C9: the shared holders of the lock are exactly the calls in progress: a
\* call that has returned, by any of its four exits, no longer holds it.
C9_RUnlockOnAllPaths ==
    mu.readerCount = Cardinality({t \in Lookups : InCall(t)})

\* Calls have returned through an error exit and through the success exit
\* and nobody holds the lock.
C9_Witness ==
    /\ mu.readerCount = 0
    /\ \E t \in Lookups : Returned(t) /\ lret[t].kind = "details"
    /\ \E t \in Lookups : Returned(t) /\ lret[t] \in {Failure(ErrCity), Failure(ErrASN)}

\* What the contract of getLocalizedName prescribes for (nm, l).
Prescribed(nm, l) ==
    IF nm.isNil \/ DOMAIN nm.m = {} THEN ""
    ELSE IF l \in DOMAIN nm.m THEN nm.m[l]
    ELSE IF "en" \in DOMAIN nm.m THEN nm.m["en"]
    ELSE ""

\* C10: getLocalizedName(names, lang) returns "" for an absent or empty map,
\* else the entry for lang if there is one, else the entry for "en" if there
\* is one, else ""; it returns a string for every input.
C10_LocalizedName ==
    name # NotCalled =>
        /\ name = Prescribed(names, lang)
        /\ name \in NameValues

\* The fallback: "fr" asked of a map holding "en" and "de".
C10_Witness ==
    /\ lang = "fr"
    /\ names = MakeMap([l \in {"en", "de"} |-> IF l = "en" THEN "Germany" ELSE "Deutschland"])
    /\ name = "Germany"

ClosedResolver == \E k \in Closers : kpc[k] = "done"
Parsable(ip) == ParseIP(ip) # NilIP

\* C11: nothing guards a closed resolver. Once a Close has returned, both
\* handle fields still hold the closed handles; a GetIPInfo call with a
\* parsable address made after that goes on to query the closed city handle;
\* and every further Close calls Close on both handles again.
C11_NoClosedGuard ==
    /\ [](ClosedResolver => i.cityReader = "closed" /\ i.asnReader = "closed")
    /\ [](HaveResolver =>
            /\ closeCalls["city"] = Cardinality({k \in Closers : kpc[k] \in {"closeASN", "done"}})
            /\ closeCalls["asn"] = Cardinality({k \in Closers : kpc[k] = "done"}))
    /\ [][\A t \in Lookups :
            (ClosedResolver /\ Parsable(lip[t]) /\ lpc[t] = "parse" /\ lpc'[t] # "parse")
                => lpc'[t] = "city"]_vars
    /\ [][\A t \in Lookups :
            (ClosedResolver /\ lpc[t] = "city" /\ lpc'[t] # "city")
                => /\ Len(touched'[t]) = 1
                   /\ touched'[t][1][1] = "city"
                   /\ touched'[t][1][2] = "closed"]_vars

\* Both handles have been closed twice and a call made after the first
\* Close has queried the closed city handle.
C11_Witness ==
    /\ closeCalls["city"] = 2 /\ closeCalls["asn"] = 2
    /\ \E t \in Lookups :
        /\ Len(touched[t]) >= 1
        /\ touched[t][1][1] = "city" /\ touched[t][1][2] = "closed"

OpenErrors == {"OpenCityError", "OpenASNError"}
Constructing == cpc \notin {"idle", "done"}

\* C12: a failed open leaves the files as provisioning left them. No open
\* step and no return changes a file; when an open has failed both files are
\* still on disk; and the construction a caller starts after that failure
\* finds both present and fetches neither.
C12_OpenFailureKeepsFiles ==
    /\ []((err \in OpenErrors \/ (cpc = "done" /\ ret \in OpenErrors)) =>
            \A f \in Files : fs[f] # "absent")
    /\ [][(cpc \in {"openCity", "openASN", "return"}) => (fs' = fs)]_vars
    /\ [][(cpc = "done" /\ ret \in OpenErrors /\ cpc' # "done") =>
            /\ fs0' = fs
            /\ \A f \in Files : fs0'[f] # "absent"]_vars
    /\ []((prev.err \in OpenErrors /\ Constructing) =>
            /\ Present0 = Files
            /\ fs = fs0
            /\ \A f \in Files : ~Did("get", f))

\* The construction after a failed city open has found both files, the bad
\* city file included, and is about to open it again.
C12_Witness ==
    /\ prev.err = "OpenCityError"
    /\ cpc = "openCity"
    /\ fs["city"] = "bad"
    /\ Did("stat", "city") /\ Did("stat", "asn")

\* The place of a step in the order NewIPInfo prescribes: the directory, the
\* city file, the ASN file, the city handle, the ASN handle.
Rank(s) ==
    LET base == CASE s[2] = "dir" -> 0 [] s[2] = "city" -> 10 [] s[2] = "asn" -> 20
        off == CASE s[1] = "home" -> 1
                 [] s[1] = "mkdir" -> 2
                 [] s[1] = "stat" -> 0
                 [] s[1] = "get" -> 1
                 [] s[1] \in {"transport", "badstatus", "200"} -> 2
                 [] s[1] \in {"create", "createfail"} -> 3
                 [] s[1] = "copy" -> 4
                 [] s[1] = "open" -> 30
    IN  base + off

Downloaded(f) == Did("200", f) /\ Did("create", f) /\ Did("copy", f)

\* C13: the steps of a construction run in one order, each at most once:
\* directory, city check/fetch, ASN check/fetch, city open, ASN open. A
\* handle is opened only after the directory step and both file checks, each
\* file being on disk, found there or fully downloaded. A step that fails
\* is the last step: the construction goes to its return and runs nothing
\* more.
C13_StrictOrder ==
    /\ [](\A n, m \in 1..Len(trace) : n < m => Rank(trace[n]) < Rank(trace[m]))
    /\ []((Did("open", "city") \/ cpc \in {"openCity", "openASN"}) =>
            /\ Did("mkdir", "dir")
            /\ \A f \in Files :
                /\ Did("stat", f)
                /\ fs[f] # "absent"
                /\ Did("get", f) => Downloaded(f))
    /\ [](Did("open", "asn") => Did("open", "city"))
    /\ [](i.cityReader # "nil" => Did("open", "city") \/ cpc = "done")
    /\ [](i.asnReader # "nil" => Did("open", "asn") \/ cpc = "done")
    /\ [](err # "" => cpc = "return")
    /\ [][err # "" => trace' = << >>]_vars

\* Both files were fetched and both handles opened, in order.
C13_Witness ==
    /\ cpc = "return"
    /\ err = ""
    /\ Len(trace) = 13
    /\ Downloaded("city") /\ Downloaded("asn")
    /\ Did("open", "asn")

Truncated == {"empty", "partial"}

\* C14: a download that fails once the file exists (the copy fails, or the
\* process stops during the copy) leaves the truncated file on disk and
\* nothing removes it afterwards. Every later construction takes such a file
\* as present: it leaves the file alone, never fetches or recreates it, passes
\* from the file's check to the next step without a download, and opens the
\* file as it is, which fails.
C14_TruncatedFileStays ==
    /\ [](\A f \in Files :
            (err = DownloadError(f) /\ Did("create", f)) => fs[f] \in Truncated)
    /\ [][(cpc = "copy" /\ cpc' = "idle") => fs'[cfile] \in Truncated]_vars
    /\ [][(cpc \in {"idle", "return", "done"}) => (fs' = fs)]_vars
    /\ [](\A f \in Files :
            fs0[f] \in Truncated =>
                /\ ~Did("get", f) /\ ~Did("create", f) /\ ~Did("copy", f)
                /\ fs[f] = fs0[f])
    /\ [][(cpc = "stat" /\ fs[cfile] \in Truncated /\ trace' # trace) =>
            /\ trace' = Append(trace, Step("stat", cfile))
            /\ cpc' = NextPc(cfile)]_vars
    /\ [](\A f \in Files :
            (prev.last = Step("copy", f) /\ Constructing) => fs0[f] \in Truncated)
    /\ []((Did("open", "city") /\ fs["city"] \in Truncated) => err = "OpenCityError")
    /\ []((Did("open", "asn") /\ fs["asn"] \in Truncated) => err = "OpenASNError")

\* A retry has found the truncated city file, fetched nothing for it, and
\* failed to open it.
C14_Witness ==
    /\ prev = Ended("crash", << Step("copy", "city") >>)
    /\ fs0["city"] = "partial"
    /\ Did("stat", "city") /\ ~Did("get", "city")
    /\ err = "OpenCityError"

FetchFailed(f) == Did("transport", f) \/ Did("badstatus", f)

\* C15: a fetch that fails with a transport error or a status other than 200
\* creates and writes nothing: the file is absent when the construction
\* fails and stays absent until the next construction, which (once it reaches
\* that file's check) fetches it again.
C15_FailedFetchLeavesNoFile ==
    /\ [](\A f \in Files :
            FetchFailed(f) =>
                /\ fs[f] = "absent"
                /\ ~Did("create", f) /\ ~Did("createfail", f) /\ ~Did("copy", f)
                /\ err = DownloadError(f))
    /\ [](\A f \in Files :
            (prev.last \in {Step("transport", f), Step("badstatus", f)}) =>
                /\ prev.err = DownloadError(f)
                /\ cpc = "done" => fs[f] = "absent"
                /\ Constructing =>
                    /\ fs0[f] = "absent"
                    /\ Did("stat", f) => ((cpc = "get" /\ cfile = f) \/ Did("get", f)))

\* The construction after an ASN fetch that was answered with a bad status
\* has fetched the ASN file again, this time with success.
C15_Witness ==
    /\ prev = Ended("DownloadASNError", << Step("badstatus", "asn") >>)
    /\ Did("200", "asn")
    /\ Did("copy", "asn")
    /\ fs["asn"] = "good"

Asked(t, n, handle, ok) ==
    /\ Len(touched[t]) >= n
    /\ touched[t][n][1] = handle
    /\ touched[t][n][3] = ok

\* C16: a call with a parsable address queries the city handle first and the
\* ASN handle second. It returns the city-lookup error exactly when the city
\* query failed, and then the ASN handle was not queried; it queries the ASN
\* handle, and can return the ASN-lookup error, only after the city query
\* answered; it returns a record only when both queries answered.
C16_CityBeforeASN ==
    \A t \in Lookups :
        /\ lpc[t] \in {"parse", "city"} => touched[t] = << >>
        /\ lpc[t] = "asn" => Len(touched[t]) = 1 /\ Asked(t, 1, "city", TRUE)
        /\ (Returned(t) /\ Parsable(lip[t])) =>
            CASE lret[t] = Failure(ErrCity) ->
                    Len(touched[t]) = 1 /\ Asked(t, 1, "city", FALSE)
              [] lret[t] = Failure(ErrASN) ->
                    /\ Len(touched[t]) = 2
                    /\ Asked(t, 1, "city", TRUE) /\ Asked(t, 2, "asn", FALSE)
              [] lret[t].kind = "details" ->
                    /\ Len(touched[t]) = 2
                    /\ Asked(t, 1, "city", TRUE) /\ Asked(t, 2, "asn", TRUE)
              [] OTHER -> FALSE

\* One call has returned the city-lookup error and another the ASN-lookup
\* error.
C16_Witness ==
    /\ Returned(1) /\ lret[1] = Failure(ErrCity)
    /\ Returned(2) /\ lret[2] = Failure(ErrASN)

\* C17: under fair scheduling, a Close that waits in i.mu.Lock() eventually
\* holds the lock exclusively and eventually returns, whatever GetIPInfo calls
\* are made while it waits.
C17_CloseNotStarved ==
    \A k \in Closers :
        /\ (kpc[k] = "pending") ~> (kpc[k] = "closeCity" /\ mu.writing)
        /\ (kpc[k] = "pending") ~> (kpc[k] = "done")

\* A Close waits while one GetIPInfo holds the lock shared and the other
\* goroutine, back from an earlier call, is free to call again.
C17_Witness ==
    /\ \E k \in Closers : kpc[k] = "pending"
    /\ mu.readerCount = 1
    /\ InCall(1)
    /\ Returned(2)

\* The subdivision list of the city result a returned record was built from.
SubdivisionsFor(t) == CityFixture(ParseIP(lip[t])).rec.Subdivisions
GotRecord(t) == Returned(t) /\ lret[t].kind = "details"

\* C18: in every record GetIPInfo returns, Region and RegionCode are the "en"
\* name (by getLocalizedName) and the ISO code of the first subdivision of the
\* city result, or both empty when the result has no subdivision; what the
\* list holds after its first entry does not show in the record.
C18_FirstSubdivision ==
    \A t \in Lookups :
        GotRecord(t) =>
            LET subs == SubdivisionsFor(t)
                d    == lret[t].details
            IN  /\ subs = << >> => d.Region = "" /\ d.RegionCode = ""
                /\ subs # << >> =>
                    /\ d.Region = getLocalizedName(Head(subs).Names, "en")
                    /\ d.RegionCode = Head(subs).IsoCode
                /\ \A n \in 2..Len(subs) :
                    subs[n].IsoCode # Head(subs).IsoCode => d.RegionCode # subs[n].IsoCode

\* One record was built from a city result with two subdivisions, the first
\* of them without an "en" name; the other from a result with none.
C18_Witness ==
    /\ GotRecord(1) /\ lip[1] = "203.0.113.9"
    /\ lret[1].details.Region = "" /\ lret[1].details.RegionCode = "QC"
    /\ GotRecord(2) /\ lip[2] = "2001:db8::1"
    /\ lret[2].details.Region = "" /\ lret[2].details.RegionCode = ""

====
